---- MODULE Spec2Model ----
(***************************************************************************)
(* Model of the debug-macros crate (src/src/lib.rs): the process-wide      *)
(* DEBUG flag with set_debug / is_debug, the debug_writeln! macro writing  *)
(* to a caller-owned sink, and the debug! macro writing to stderr.         *)
(*                                                                         *)
(* Text is modelled by TLA+ strings, a sink by the sequence of the chunks  *)
(* appended to it, one chunk per write!/writeln! statement of the macro.   *)
(* Each chunk remembers the call that wrote it.                            *)
(***************************************************************************)
EXTENDS Integers, Sequences, FiniteSets, TLC

\* Number of caller threads.
NThreads == 2
\* Total number of calls (set_debug, is_debug, debug_writeln!, debug!) made.
MaxCalls == 3
\* Number of macro invocations (debug_writeln!, debug!) among them.
MaxTraces == 2

Threads == 1..NThreads
NoThread == 0

VARIABLES
    debug_emit,        \* cfg!(feature = "debug_emit")
    debug_assertions,  \* cfg!(debug_assertions)
    test,              \* cfg!(test)
    DEBUG,             \* static DEBUG: AtomicBool
    stderr_out,        \* chunks written to the process's standard error
    stderr_lock,       \* thread holding the StderrLock guard, or NoThread
    msg,               \* msg[t]: chunks of the String thread t passes as $f
    pc,                \* pc[t]: position of thread t inside its current call
    cur,               \* cur[t]: thread t's current (or last finished) call
    idx,               \* idx[t]: next write!/writeln! statement of the call
    ncalls,            \* calls started so far
    ntraces,           \* macro invocations among them
    made,              \* the macro invocations begun while DEBUG was on, in call order
    stored             \* <<b>> once set_debug(b) made the latest store to DEBUG, <<>> before any

vars == <<debug_emit, debug_assertions, test, DEBUG, stderr_out, stderr_lock,
          msg, pc, cur, idx, ncalls, ntraces, made, stored>>

(***************************************************************************)
(* Values passed to the macros and their {:?} rendering                     *)
(***************************************************************************)
I32(n)  == <<"i32", n>>
Str(cs) == <<"str", cs>>      \* cs: the characters of the &str
Some(v) == <<"Some", v>>
None    == <<"None">>

Digit == <<"0", "1", "2", "3", "4", "5", "6", "7", "8", "9">>

RECURSIVE fmt_u(_)
fmt_u(n) == IF n < 10 THEN Digit[n + 1]
            ELSE fmt_u(n \div 10) \o Digit[(n % 10) + 1]

fmt_i32(n) == IF n < 0 THEN "-" \o fmt_u(0 - n) ELSE fmt_u(n)

\* <str as Debug>: escape_debug of one character.
escape_debug(c) == CASE c = "\"" -> "\\\""
                     [] c = "\\" -> "\\\\"
                     [] c = "\n" -> "\\n"
                     [] OTHER    -> c

RECURSIVE fmt_str_body(_)
fmt_str_body(cs) == IF cs = <<>> THEN ""
                    ELSE escape_debug(Head(cs)) \o fmt_str_body(Tail(cs))

\* "{:?}" of a value.
RECURSIVE fmt_debug(_)
fmt_debug(v) == CASE v[1] = "i32"  -> fmt_i32(v[2])
                  [] v[1] = "str"  -> "\"" \o fmt_str_body(v[2]) \o "\""
                  [] v[1] = "Some" -> "Some(" \o fmt_debug(v[2]) \o ")"
                  [] v[1] = "None" -> "None"

\* "{}" of the $msg literal (a string literal displays as its own text).
fmt_display(m) == m

(***************************************************************************)
(* The argument lists the callers pass: label (absent or one literal) and  *)
(* the values $x0, $xs...  A value list without a label matches no macro   *)
(* arm and does not compile.                                               *)
(***************************************************************************)
Args == <<
    [label |-> <<>>,                values |-> <<>>],
    [label |-> <<"still running">>, values |-> <<>>],
    [label |-> <<"running">>,       values |-> <<Some(I32(5)), Str(<<"x">>)>>],
    [label |-> <<"v">>,             values |-> <<Str(<<"\"", "\\", "\n">>)>>]
>>

ArgIds == 1..Len(Args)

\* Appends with a separator written after every value instead of before
\* every value but the first.
Appends_sep_after(a) ==
    IF a.label = <<>> THEN
        << "debug" \o "\n" >>
    ELSE IF a.values = <<>> THEN
        << "debug: " \o fmt_display(a.label[1]) \o "\n" >>
    ELSE
        << "debug: " \o fmt_display(a.label[1]) \o ": " >>
        \o [i \in 1..Len(a.values) |-> fmt_debug(a.values[i]) \o ", "]
        \o << "\n" >>

\* Appends with the label-only arm writing the ": " of the values arm.
Appends_label_colon(a) ==
    IF a.label = <<>> THEN
        << "debug" \o "\n" >>
    ELSE IF a.values = <<>> THEN
        << "debug: " \o fmt_display(a.label[1]) \o ": " \o "\n" >>
    ELSE
        << "debug: " \o fmt_display(a.label[1]) \o ": ",
           fmt_debug(a.values[1]) >>
        \o [i \in 1..(Len(a.values) - 1) |-> ", " \o fmt_debug(a.values[i + 1])]
        \o << "\n" >>

\* Appends with the bare arm writing the "debug: " prefix of the labelled arms.
Appends_bare_prefix(a) ==
    IF a.label = <<>> THEN
        << "debug: " \o "\n" >>
    ELSE IF a.values = <<>> THEN
        << "debug: " \o fmt_display(a.label[1]) \o "\n" >>
    ELSE
        << "debug: " \o fmt_display(a.label[1]) \o ": ",
           fmt_debug(a.values[1]) >>
        \o [i \in 1..(Len(a.values) - 1) |-> ", " \o fmt_debug(a.values[i + 1])]
        \o << "\n" >>

\* The write!/writeln! statements of the arm of debug_writeln! that matches
\* argument list a, as the texts they append, in program order.
Appends(a) ==
    IF a.label = <<>> THEN
        << "debug" \o "\n" >>
    ELSE IF a.values = <<>> THEN
        << "debug: " \o fmt_display(a.label[1]) \o "\n" >>
    ELSE
        << "debug: " \o fmt_display(a.label[1]) \o ": ",
           fmt_debug(a.values[1]) >>
        \o [i \in 1..(Len(a.values) - 1) |-> ", " \o fmt_debug(a.values[i + 1])]
        \o << "\n" >>

(***************************************************************************)
(* State                                                                   *)
(***************************************************************************)
\* A call record: id numbers the calls in the order they start; op is the
\* operation; arg indexes Args (macros); b is set_debug's argument; seen is the
\* flag value the call read; failed says one of its appends returned Err.
\* clean: the call is a set_debug and no other thread has stored since.
\* prev: "set_true"/"set_false" when the same thread's preceding call was
\* set_debug(TRUE)/set_debug(FALSE) and was still clean when this one began.
NoCall == [id |-> 0, op |-> "none", arg |-> 0, b |-> FALSE, seen |-> FALSE,
           clean |-> FALSE, prev |-> "none", failed |-> FALSE]

Prev(c) == IF c.op = "set_debug" /\ c.clean
           THEN (IF c.b THEN "set_true" ELSE "set_false")
           ELSE "none"

\* What one statement appended; flag is the value DEBUG held at that moment.
Chunk(c, text) == [call |-> c.id, arg |-> c.arg, text |-> text, flag |-> DEBUG]

\* The initial value with cfg!(test) left out.
DEBUG_init_no_test(emit, assertions, tst) == emit /\ assertions

\* AtomicBool::new(cfg!(feature="debug_emit") && (cfg!(debug_assertions) || cfg!(test)))
DEBUG_init(emit, assertions, tst) == emit /\ (assertions \/ tst)

Init ==
    /\ debug_emit \in BOOLEAN
    /\ debug_assertions \in BOOLEAN
    /\ test \in BOOLEAN
    /\ DEBUG = DEBUG_init(debug_emit, debug_assertions, test)
    /\ stderr_out = <<>>
    /\ stderr_lock = NoThread
    /\ msg = [t \in Threads |-> <<>>]
    /\ pc = [t \in Threads |-> "idle"]
    /\ cur = [t \in Threads |-> NoCall]
    /\ idx = [t \in Threads |-> 0]
    /\ ncalls = 0
    /\ ntraces = 0
    /\ made = <<>>
    /\ stored = <<>>

cfg == <<debug_emit, debug_assertions, test>>

CanCall(t) == pc[t] = "idle" /\ ncalls < MaxCalls

CanTrace(t) == CanCall(t) /\ ntraces < MaxTraces

\* fetch_or in place of store: the flag can only be switched on.
store_or(old, debug) == old \/ debug

\* fetch_and in place of store: the flag can only be switched off.
store_and(old, debug) == old /\ debug

\* fetch_xor in place of store: storing TRUE toggles the flag.
store_xor(old, debug) == old # debug

\* DEBUG.store(debug, SeqCst): the value the flag holds after the store.
store(old, debug) == debug

\* A flag read that always answers "on".
load_on(flag) == TRUE

\* DEBUG.load(SeqCst): the value the load returns.
load(flag) == flag

\* pub fn set_debug(debug: bool)
set_debug(t, debug) ==
    /\ CanCall(t)
    /\ DEBUG' = store(DEBUG, debug)
    /\ stored' = <<debug>>
    /\ ncalls' = ncalls + 1
    /\ cur' = [u \in Threads |->
                 IF u = t
                 THEN [id |-> ncalls + 1, op |-> "set_debug", arg |-> 0,
                       b |-> debug, seen |-> FALSE, clean |-> TRUE,
                       prev |-> Prev(cur[t]), failed |-> FALSE]
                 ELSE [cur[u] EXCEPT !.clean = FALSE]]
    /\ UNCHANGED <<cfg, stderr_out, stderr_lock, msg, pc, idx, ntraces, made>>

\* is_debug as a swap(false, SeqCst): the read clears the flag.
is_debug_clears(t) ==
    /\ CanCall(t)
    /\ ncalls' = ncalls + 1
    /\ cur' = [cur EXCEPT ![t] = [id |-> ncalls + 1, op |-> "is_debug",
                                  arg |-> 0, b |-> FALSE,
                                  seen |-> load(DEBUG), clean |-> FALSE,
                                  prev |-> Prev(cur[t]), failed |-> FALSE]]
    /\ DEBUG' = FALSE
    /\ UNCHANGED <<cfg, stored, stderr_out, stderr_lock, msg, pc, idx, ntraces, made>>

\* pub fn is_debug() -> bool
is_debug(t) ==
    /\ CanCall(t)
    /\ ncalls' = ncalls + 1
    /\ cur' = [cur EXCEPT ![t] = [id |-> ncalls + 1, op |-> "is_debug",
                                  arg |-> 0, b |-> FALSE,
                                  seen |-> load(DEBUG), clean |-> FALSE,
                                  prev |-> Prev(cur[t]), failed |-> FALSE]]
    /\ UNCHANGED <<cfg, DEBUG, stored, stderr_out, stderr_lock, msg, pc, idx, ntraces, made>>

\* The call record of a macro invocation by thread t with argument list a.
TraceCall(t, op, a, flag) ==
    [id |-> ncalls + 1, op |-> op, arg |-> a, b |-> FALSE, seen |-> flag,
     clean |-> FALSE, prev |-> Prev(cur[t]), failed |-> FALSE]

\* debug_writeln!(&mut msg, ...): `if $crate::is_debug() {` of the matching arm.
\* A call that reads the flag as off is over; otherwise its first write! is next.
debug_writeln(t, a) ==
    /\ CanTrace(t)
    /\ ntraces' = ntraces + 1
    /\ ncalls' = ncalls + 1
    /\ cur' = [cur EXCEPT ![t] = TraceCall(t, "debug_writeln", a, load(DEBUG))]
    /\ made' = IF DEBUG THEN Append(made, [sink |-> t, arg |-> a]) ELSE made
    /\ IF load(DEBUG)
       THEN pc' = [pc EXCEPT ![t] = "write"] /\ idx' = [idx EXCEPT ![t] = 1]
       ELSE UNCHANGED <<pc, idx>>
    /\ UNCHANGED <<cfg, DEBUG, stored, stderr_out, stderr_lock, msg>>

\* The flag looked at again after every statement: a call stops early once
\* the flag is off.
AfterStatement_rechecks(t, i, more, done) ==
    IF i < Len(Appends(Args[cur[t].arg])) /\ DEBUG
    THEN pc' = [pc EXCEPT ![t] = more] /\ idx' = [idx EXCEPT ![t] = i + 1]
    ELSE pc' = [pc EXCEPT ![t] = done] /\ idx' = [idx EXCEPT ![t] = 0]

\* Position after statement number i of the call's arm has completed.
AfterStatement(t, i, more, done) ==
    IF i < Len(Appends(Args[cur[t].arg]))
    THEN pc' = [pc EXCEPT ![t] = more] /\ idx' = [idx EXCEPT ![t] = i + 1]
    ELSE pc' = [pc EXCEPT ![t] = done] /\ idx' = [idx EXCEPT ![t] = 0]

\* A statement that replaces the String's content instead of appending to it.
write_msg_overwrites(t) ==
    /\ pc[t] = "write"
    /\ msg' = [msg EXCEPT ![t] =
                 << Chunk(cur[t], Appends(Args[cur[t].arg])[idx[t]]) >>]
    /\ AfterStatement(t, idx[t], "write", "idle")
    /\ UNCHANGED <<cfg, DEBUG, stored, stderr_out, stderr_lock, cur, ncalls, ntraces, made>>

\* $crate::write!($f, ...).unwrap() with $f = &mut msg, a String: the
\* statement appends its text (String's write_str cannot fail).
write_msg(t) ==
    /\ pc[t] = "write"
    /\ msg' = [msg EXCEPT ![t] =
                 Append(@, Chunk(cur[t], Appends(Args[cur[t].arg])[idx[t]]))]
    /\ AfterStatement(t, idx[t], "write", "idle")
    /\ UNCHANGED <<cfg, DEBUG, stored, stderr_out, stderr_lock, cur, ncalls, ntraces, made>>

\* $f evaluated (the lock requested) before the flag is looked at.
guarded_unchecked(flag, first) == first

\* `if $crate::is_debug() { ... }` around the statements that use $f: where a
\* call that read flag goes next; first is the position of its first statement.
guarded(flag, first) == IF flag THEN first ELSE "idle"

\* debug!(...): `let stderr = $crate::stderr();` then debug_writeln! with
\* $f = &mut stderr.lock(); the flag is read before $f is first evaluated.
debug(t, a) ==
    /\ CanTrace(t)
    /\ ntraces' = ntraces + 1
    /\ ncalls' = ncalls + 1
    /\ cur' = [cur EXCEPT ![t] = TraceCall(t, "debug", a, load(DEBUG))]
    /\ made' = IF DEBUG THEN Append(made, [sink |-> NoThread, arg |-> a]) ELSE made
    /\ pc' = [pc EXCEPT ![t] = guarded(load(DEBUG), "lock")]
    /\ idx' = [idx EXCEPT ![t] = IF guarded(load(DEBUG), "lock") = "idle" THEN @ ELSE 1]
    /\ UNCHANGED <<cfg, DEBUG, stored, stderr_out, stderr_lock, msg>>

\* The io::Result dropped instead of unwrapped.
unwrap_ignored(ok) == "unlock"

\* .unwrap() on the io::Result of a statement's write_fmt: on Ok the statement
\* goes on to its end, on Err the thread panics.
unwrap(ok) == IF ok THEN "unlock" ELSE "panicking"

\* stderr.lock(): $f is evaluated anew by every write!/writeln! statement of
\* the arm, so each statement takes the lock; it blocks while another thread
\* holds it.
lock(t) ==
    /\ pc[t] = "lock"
    /\ stderr_lock = NoThread
    /\ stderr_lock' = t
    /\ pc' = [pc EXCEPT ![t] = "locked"]
    /\ UNCHANGED <<cfg, DEBUG, stored, stderr_out, msg, cur, idx, ncalls, ntraces, made>>

\* write_fmt through the guard returns Ok and unwrap() passes.
write_stderr(t) ==
    /\ pc[t] = "locked"
    /\ stderr_out' = Append(stderr_out,
                            Chunk(cur[t], Appends(Args[cur[t].arg])[idx[t]]))
    /\ pc' = [pc EXCEPT ![t] = unwrap(TRUE)]
    /\ UNCHANGED <<cfg, DEBUG, stored, stderr_lock, msg, cur, idx, ncalls, ntraces, made>>

\* write_fmt through the guard returns Err after k bytes of the statement's
\* text went out, and unwrap() panics.
write_stderr_fail(t, k) ==
    /\ pc[t] = "locked"
    /\ k < Len(Appends(Args[cur[t].arg])[idx[t]])
    /\ stderr_out' = IF k = 0 THEN stderr_out
                     ELSE Append(stderr_out,
                                 Chunk(cur[t], SubSeq(Appends(Args[cur[t].arg])[idx[t]], 1, k)))
    /\ cur' = [cur EXCEPT ![t].failed = TRUE]
    /\ pc' = [pc EXCEPT ![t] = unwrap(FALSE)]
    /\ UNCHANGED <<cfg, DEBUG, stored, stderr_lock, msg, idx, ncalls, ntraces, made>>

\* End of the statement: the temporary StderrLock guard is dropped.
drop_lock(t) ==
    /\ pc[t] = "unlock"
    /\ stderr_lock' = NoThread
    /\ AfterStatement(t, idx[t], "lock", "idle")
    /\ UNCHANGED <<cfg, DEBUG, stored, stderr_out, msg, cur, ncalls, ntraces, made>>

\* Unwinding that leaves the guard behind (the lock stays with the dead thread).
unwind_keeps_lock(t) ==
    /\ pc[t] = "panicking"
    /\ pc' = [pc EXCEPT ![t] = "panicked"]
    /\ UNCHANGED <<cfg, DEBUG, stored, stderr_out, stderr_lock, msg, cur, idx,
                   ncalls, ntraces, made>>

\* Unwinding out of the panicking statement drops the guard; the thread ends.
\* (The message the panic hook prints is not output of a macro invocation and
\* is not part of stderr_out.)
unwind(t) ==
    /\ pc[t] = "panicking"
    /\ stderr_lock' = NoThread
    /\ pc' = [pc EXCEPT ![t] = "panicked"]
    /\ UNCHANGED <<cfg, DEBUG, stored, stderr_out, msg, cur, idx, ncalls, ntraces, made>>

\* Most bytes of one statement that may go out before its write fails.
MaxPartial == 1

Next ==
    \/ \E t \in Threads, b \in BOOLEAN : set_debug(t, b)
    \/ \E t \in Threads : is_debug(t)
    \/ \E t \in Threads, a \in ArgIds : debug_writeln(t, a)
    \/ \E t \in Threads : write_msg(t)
    \/ \E t \in Threads, a \in ArgIds : debug(t, a)
    \/ \E t \in Threads : lock(t)
    \/ \E t \in Threads : write_stderr(t)
    \/ \E t \in Threads, k \in 0..MaxPartial : write_stderr_fail(t, k)
    \/ \E t \in Threads : drop_lock(t)
    \/ \E t \in Threads : unwind(t)

Spec == Init /\ [][Next]_vars

\* The only thread of a single-threaded program (main of the demo).
Caller == 1

\* A single-threaded program: every call is made by Caller.
NextSeq ==
    \/ \E b \in BOOLEAN : set_debug(Caller, b)
    \/ is_debug(Caller)
    \/ \E a \in ArgIds : debug_writeln(Caller, a)
    \/ write_msg(Caller)
    \/ \E a \in ArgIds : debug(Caller, a)
    \/ lock(Caller)
    \/ write_stderr(Caller)
    \/ \E k \in 0..MaxPartial : write_stderr_fail(Caller, k)
    \/ drop_lock(Caller)
    \/ unwind(Caller)

SeqSpec == Init /\ [][NextSeq]_vars

\* A thread inside a macro invocation keeps running: the scheduler does not
\* leave a statement it can execute unexecuted forever.
Running(t) ==
    \/ write_msg(t)
    \/ lock(t)
    \/ write_stderr(t)
    \/ \E k \in 0..MaxPartial : write_stderr_fail(t, k)
    \/ drop_lock(t)
    \/ unwind(t)

FairSpec == Spec /\ \A t \in Threads : WF_vars(Running(t))

(***************************************************************************)
(* Properties                                                              *)
(***************************************************************************)
IsTrace(c) == c.op \in {"debug_writeln", "debug"}

HasLabel(a)  == Args[a].label # <<>>
HasValues(a) == Args[a].values # <<>>

\* The text of a sequence of chunks.
RECURSIVE Text(_)
Text(cs) == IF cs = <<>> THEN "" ELSE Head(cs).text \o Text(Tail(cs))

\* The sink a call writes to.
SinkOf(t) == IF cur[t].op = "debug" THEN stderr_out ELSE msg[t]

\* What thread t's current (or last) call has appended to its sink.
Written(t) == Text(SelectSeq(SinkOf(t), LAMBDA c : c.call = cur[t].id))

\* Thread t's last call was a macro invocation that has returned.
Returned(t) == pc[t] = "idle" /\ IsTrace(cur[t])

\* C1: with threads calling debug! concurrently, the chunks of a labelled
\* call's line are contiguous in stderr: no chunk of another call lies between
\* two chunks of the same call.
C1_StderrLinesContiguous ==
    \A i, j, k \in 1..Len(stderr_out) :
        (/\ i < j /\ j < k
         /\ stderr_out[i].call = stderr_out[k].call
         /\ HasLabel(stderr_out[i].arg))
        => stderr_out[j].call = stderr_out[i].call

\* Thread t takes the step in which a new macro invocation reads the flag.
TraceBegins(t) == cur'[t].id # cur[t].id /\ IsTrace(cur'[t])

\* C2: a macro invocation (any arm, either sink) that reads the flag while it
\* is off is over at once and leaves every sink as it was.
C2_DisabledCallWritesNothing ==
    [][\A t \in Threads :
          (TraceBegins(t) /\ ~DEBUG)
          => /\ pc'[t] = "idle"
             /\ msg' = msg
             /\ stderr_out' = stderr_out
             /\ stderr_lock' = stderr_lock]_vars

C2_Witness ==
    \E t \in Threads :
        /\ Returned(t) /\ ~cur[t].seen /\ ~DEBUG
        /\ cur[t].op = "debug" /\ HasValues(cur[t].arg)
        /\ stored = <<FALSE>>
        /\ stderr_out # <<>>

\* ", "-separated {:?} renderings of the values from position i on.
RECURSIVE JoinDebug(_, _)
JoinDebug(vs, i) == IF i > Len(vs) THEN ""
                    ELSE IF i = Len(vs) THEN fmt_debug(vs[i])
                    ELSE fmt_debug(vs[i]) \o ", " \o JoinDebug(vs, i + 1)

\* C3: an enabled call with a label and values v0..vn that has returned has
\* appended exactly "debug: <label>: ", the {:?} of v0, ", " and the {:?} of
\* each further value in order, and one newline; in particular label "running"
\* with Some(5) and "x" gives "debug: running: Some(5), \"x\"\n".
C3_LabelAndValuesLine ==
    \A t \in Threads :
        (Returned(t) /\ cur[t].seen /\ HasLabel(cur[t].arg) /\ HasValues(cur[t].arg))
        => /\ Written(t) = "debug: " \o Args[cur[t].arg].label[1] \o ": "
                            \o JoinDebug(Args[cur[t].arg].values, 1) \o "\n"
           /\ cur[t].arg = 3 => Written(t) = "debug: running: Some(5), \"x\"\n"
           /\ cur[t].arg = 4 => Written(t) = "debug: v: \"\\\"\\\\\\n\"\n"

C3_Witness ==
    \E t \in Threads :
        /\ Returned(t) /\ cur[t].seen /\ cur[t].arg = 3
        /\ cur[t].op = "debug_writeln"
        /\ Len(msg[t]) = 4

\* C4: an enabled call with a label and no values that has returned has
\* appended exactly "debug: <label>\n".
C4_LabelOnlyLine ==
    \A t \in Threads :
        (Returned(t) /\ cur[t].seen /\ HasLabel(cur[t].arg) /\ ~HasValues(cur[t].arg))
        => /\ Written(t) = "debug: " \o Args[cur[t].arg].label[1] \o "\n"
           /\ cur[t].arg = 2 => Written(t) = "debug: still running\n"

C4_Witness ==
    \E t \in Threads :
        /\ Returned(t) /\ cur[t].seen /\ cur[t].arg = 2
        /\ cur[t].op = "debug_writeln"
        /\ Text(msg[t]) = "debug: still running\n"

\* C5: an enabled call with no label and no values that has returned has
\* appended exactly "debug\n".
C5_BareLine ==
    \A t \in Threads :
        (Returned(t) /\ cur[t].seen /\ ~HasLabel(cur[t].arg))
        => Written(t) = "debug\n"

C5_Witness ==
    \E t \in Threads :
        /\ Returned(t) /\ cur[t].seen /\ cur[t].arg = 1
        /\ cur[t].op = "debug_writeln"
        /\ Text(msg[t]) = "debug\n"

\* C6: is_debug() called by a thread right after its own set_debug(b), with no
\* store by any thread in between, returns b, whatever the flag held before.
C6_SetThenGet ==
    \A t \in Threads :
        cur[t].op = "is_debug"
        => /\ cur[t].prev = "set_true"  => cur[t].seen = TRUE
           /\ cur[t].prev = "set_false" => cur[t].seen = FALSE

C6_Witness ==
    \E t \in Threads :
        /\ cur[t].op = "is_debug" /\ cur[t].prev = "set_false"
        /\ DEBUG_init(debug_emit, debug_assertions, test)
        /\ ~cur[t].seen

\* The value of the latest store to DEBUG: the argument of the latest
\* set_debug that has returned, the initial value before any.
LastStored == IF stored = <<>> THEN DEBUG_init(debug_emit, debug_assertions, test)
              ELSE stored[1]

\* C7: every flag read that starts (is_debug(), or the flag check of a macro
\* invocation), on any thread, observes the argument of the latest set_debug
\* that has returned.
C7_ReadsSeeLatestStore ==
    [][\A t \in Threads :
          (cur'[t].id # cur[t].id /\ cur'[t].op \in {"is_debug", "debug_writeln", "debug"})
          => cur'[t].seen = LastStored]_vars

C7_Witness ==
    \E t, u \in Threads :
        /\ t # u
        /\ cur[u].op = "set_debug" /\ cur[u].id < cur[t].id
        /\ cur[u].b # DEBUG_init(debug_emit, debug_assertions, test)
        /\ cur[t].op \in {"is_debug", "debug_writeln", "debug"}
        /\ cur[t].seen = cur[u].b

\* compiled_in AND (debug_build OR test_build), as a truth table.
InitialValue == IF debug_emit
                THEN (IF debug_assertions THEN TRUE ELSE test)
                ELSE FALSE

\* C8: until the first set_debug the flag holds compiled_in AND (debug_build
\* OR test_build), and is_debug() returns that value.
C8_InitialValue ==
    stored = <<>>
    => /\ DEBUG = InitialValue
       /\ \A t \in Threads : cur[t].op = "is_debug" => cur[t].seen = InitialValue

C8_Witness ==
    /\ stored = <<>>
    /\ debug_emit /\ ~debug_assertions /\ test
    /\ \E t \in Threads : cur[t].op = "is_debug" /\ cur[t].seen

\* The text of the first n statements of argument list a.
RECURSIVE StatementsText(_, _)
StatementsText(a, n) == IF n = 0 THEN ""
                        ELSE StatementsText(a, n - 1) \o Appends(Args[a])[n]

\* C9: a call one of whose appends failed panics at that append: it never
\* returns normally, and what it has appended stays the statements before the
\* failed one plus the part of the failed one that went out (no retry of the
\* failed append, no later append).
C9_WriteFailurePanics ==
    \A t \in Threads :
        cur[t].failed
        => /\ pc[t] \in {"panicking", "panicked"}
           /\ \E k \in 0..(Len(Appends(Args[cur[t].arg])[idx[t]]) - 1) :
                  Written(t) = StatementsText(cur[t].arg, idx[t] - 1)
                               \o SubSeq(Appends(Args[cur[t].arg])[idx[t]], 1, k)

C9_Witness ==
    \E t \in Threads :
        /\ cur[t].failed /\ pc[t] = "panicked"
        /\ cur[t].arg = 3 /\ idx[t] = 2
        /\ stderr_lock = NoThread

\* C10: a second set_debug(TRUE) in a row (same thread, no store by another
\* thread in between) changes nothing but the caller's own call record: the
\* flag, the sinks, the lock and every thread's position are as after the
\* first.
C10_SetTrueIdempotent ==
    [][\A t \in Threads :
          (/\ cur[t].op = "set_debug" /\ cur[t].b /\ cur[t].clean
           /\ cur'[t].id # cur[t].id
           /\ cur'[t].op = "set_debug" /\ cur'[t].b)
          => /\ DEBUG' = DEBUG
             /\ DEBUG' = TRUE
             /\ <<msg, stderr_out, stderr_lock, pc, idx>>' = <<msg, stderr_out, stderr_lock, pc, idx>>]_vars

C10_Witness ==
    \E t \in Threads :
        /\ cur[t].op = "set_debug" /\ cur[t].b /\ cur[t].prev = "set_true"
        /\ ~DEBUG_init(debug_emit, debug_assertions, test)
        /\ DEBUG

\* C11: an enabled debug! call holds the stderr lock from before its first
\* append until after its last: once its first statement has completed and
\* until the call returns, the lock is never free nor another thread's.
C11_LockHeldAcrossCall ==
    \A t \in Threads :
        (/\ cur[t].op = "debug"
         /\ pc[t] \in {"lock", "locked", "unlock"}
         /\ idx[t] > 1)
        => stderr_lock = t

\* C12: a debug! call that reads the flag as off is over in that very step,
\* whoever holds the stderr lock: it neither takes the lock nor waits for it.
C12_DisabledCallTakesNoLock ==
    [][\A t \in Threads :
          (cur'[t].id # cur[t].id /\ cur'[t].op = "debug" /\ ~DEBUG)
          => /\ pc'[t] \notin {"lock", "locked", "unlock", "panicking"}
             /\ stderr_lock' = stderr_lock
             /\ stderr_lock' # t]_vars

C12_Witness ==
    \E t, u \in Threads :
        /\ t # u
        /\ Returned(t) /\ cur[t].op = "debug" /\ ~cur[t].seen /\ ~DEBUG
        /\ cur[u].op = "debug" /\ cur[u].id < cur[t].id
        /\ stderr_lock = u /\ pc[u] = "locked"

\* Thread t is inside an enabled debug! call.
InDebug(t) == pc[t] \in {"lock", "locked", "unlock", "panicking"}

\* C13: under fair scheduling every enabled debug! call ends, by returning or
\* by the panic of a failed write, and a thread that is not inside a call
\* (returned or panicked) does not hold the stderr lock.
C13_DebugCallsFinish ==
    /\ \A t \in Threads : InDebug(t) ~> (pc[t] \in {"idle", "panicked"})
    /\ [](\A t \in Threads : pc[t] \in {"idle", "panicked"} => stderr_lock # t)

C13_Witness ==
    \E t, u \in Threads :
        /\ t # u
        /\ pc[t] = "panicked" /\ cur[t].op = "debug"
        /\ Returned(u) /\ cur[u].op = "debug" /\ cur[u].seen
        /\ cur[u].id > cur[t].id /\ HasValues(cur[u].arg)
        /\ stderr_lock = NoThread

\* C14: only set_debug changes the flag: every step that changes DEBUG is a
\* set_debug call; is_debug and every step of a macro invocation (the flag
\* check, an append, a failed append, the panic) leave it as it is.
C14_OnlySetDebugWrites ==
    [][DEBUG' # DEBUG
       => \E t \in Threads : cur'[t].id # cur[t].id /\ cur'[t].op = "set_debug"]_vars

C14_Witness ==
    /\ stored = <<>>
    /\ DEBUG = DEBUG_init(debug_emit, debug_assertions, test)
    /\ \E t, u \in Threads :
          /\ t # u
          /\ pc[t] = "panicked"
          /\ cur[u].op = "is_debug" /\ cur[u].seen
          /\ msg[u] # <<>>

\* The chunks thread t's current (or last) call has appended to its sink.
ChunksOf(t) == SelectSeq(SinkOf(t), LAMBDA c : c.call = cur[t].id)

\* C15: the flag value a macro invocation read decides the whole call: a call
\* that has returned has appended nothing if it read the flag as off, and
\* every statement of its arm, ending with the newline, if it read it as on,
\* also when the flag was switched off between its appends.
C15_AllOrNothing ==
    \A t \in Threads :
        Returned(t)
        => IF cur[t].seen
           THEN /\ Len(ChunksOf(t)) = Len(Appends(Args[cur[t].arg]))
                /\ Written(t) = StatementsText(cur[t].arg, Len(Appends(Args[cur[t].arg])))
                /\ SubSeq(Written(t), Len(Written(t)), Len(Written(t))) = "\n"
           ELSE ChunksOf(t) = <<>>

C15_Witness ==
    \E t \in Threads :
        /\ Returned(t) /\ cur[t].seen /\ cur[t].arg = 3
        /\ ChunksOf(t)[1].flag
        /\ ~ChunksOf(t)[2].flag
        /\ Written(t) = "debug: running: Some(5), \"x\"\n"

\* The line of a macro invocation with argument list a, as the format
\* prescribes it.
Line(a) ==
    IF Args[a].label = <<>> THEN "debug\n"
    ELSE IF Args[a].values = <<>> THEN "debug: " \o Args[a].label[1] \o "\n"
    ELSE "debug: " \o Args[a].label[1] \o ": " \o JoinDebug(Args[a].values, 1) \o "\n"

\* The lines, in call order, of the invocations in m that wrote to sink k.
RECURSIVE Lines(_, _)
Lines(m, k) == IF m = <<>> THEN ""
               ELSE (IF Head(m).sink = k THEN Line(Head(m).arg) ELSE "")
                    \o Lines(Tail(m), k)

IsPrefix(x, y) == Len(x) <= Len(y) /\ SubSeq(y, 1, Len(x)) = x

\* C16: in a single-threaded program every step keeps what a sink held as a
\* prefix of what it holds, and whenever the caller is between calls each sink
\* holds exactly the lines, in call order, of the invocations on it that were
\* made while the flag was on.
C16_AppendOnlyInCallOrder ==
    /\ [][/\ IsPrefix(Text(msg[Caller]), Text(msg[Caller]'))
          /\ IsPrefix(Text(stderr_out), Text(stderr_out'))]_vars
    /\ [](pc[Caller] = "idle"
          => /\ Text(msg[Caller]) = Lines(made, Caller)
             /\ Text(stderr_out) = Lines(made, NoThread))

C16_Witness ==
    /\ pc[Caller] = "idle"
    /\ Len(made) = 2
    /\ made[1].sink = Caller /\ made[2].sink = Caller
    /\ Text(msg[Caller]) = "debug: running: Some(5), \"x\"\n" \o "debug: still running\n"
    /\ stored = <<FALSE>> /\ ~DEBUG
====
